---- MODULE Spec2Model ----
(***************************************************************************)
(* A model of the citation plugin: the Notifier (util.ts), the plugin's    *)
(* library loader, its file watcher and its commands (main.ts), and the    *)
(* search modals' use of the library (modals.ts).                          *)
(***************************************************************************)
EXTENDS Integers, Sequences, FiniteSets, TLC

\* ------------------------------------------------------------------ bounds
MaxBatch == 2        \* records in one export file when the build is inspected
MaxRecords == 1      \* records in one export file otherwise
MaxLoads == 3        \* loadLibrary calls in one run (the first is init's)
MaxNotices == 3      \* notice elements of one category in the DOM at once
MaxBurst == 2        \* raw change events before the watcher signals
TimeStep == 250      \* milliseconds one Tick advances the clock
MaxPathLen == 5      \* characters of a configured export path

\* --------------------------------------------------------------- constants
\* awaitWriteFinish.stabilityThreshold
stabilityThresholdHalved == 500 \div 2

stabilityThreshold == 500

\* ------------------------------------------------------------ JS values
Undefined == [kind |-> "undefined"]
Null == [kind |-> "null"]
Truthy(v) == v.kind \notin {"undefined", "null"}

\* a field that a raw record does not have: reading it yields undefined
MISSING == "<undefined>"
\* property keys are strings: ToPropertyKey(undefined) is "undefined"
ToPropertyKey(v) == IF v = MISSING THEN "undefined" ELSE v

Formats == {"biblatex", "csl-json"}
CiteVals == {"a", "b", "", MISSING}
Titles == {1, 2}

\* The raw records a parser yields for a format: the format's own key field
\* holds the citekey (or is empty or absent), the other format's is absent.
RawRecords(format, cites, titles) ==
  { [key |-> IF format = "biblatex" THEN c ELSE MISSING,
     id |-> IF format = "csl-json" THEN c ELSE MISSING,
     title |-> t] : c \in cites, t \in titles }

SeqsUpTo(S, n) == UNION { [1..k -> S] : k \in 0..n }

\* ------------------------------------------------------------------ paths
\* A path is a string, here a sequence of characters: the separator, the dot
\* and a letter. The empty string is the unset export path.
PathChars == {"/", ".", "a"}
Paths == SeqsUpTo(PathChars, MaxPathLen)
EmptyString == <<>>

\* path.charCodeAt(0) === CHAR_FORWARD_SLASH
IsAbsolute(p) == Len(p) > 0 /\ p[1] = "/"

\* the segments between the separators of a string
RECURSIVE Segments(_)
Segments(p) ==
  IF Len(p) = 0 THEN <<EmptyString>>
  ELSE LET init == Segments(SubSeq(p, 1, Len(p) - 1))
           c == p[Len(p)]
       IN IF c = "/" THEN Append(init, EmptyString)
          ELSE [init EXCEPT ![Len(init)] = Append(@, c)]

\* path's normalizeString, segment by segment: empty and "." segments are
\* dropped, ".." removes the segment before it (above the root of an
\* absolute path there is nothing to remove)
RECURSIVE NormalizeString(_, _)
NormalizeString(segs, allowAboveRoot) ==
  IF Len(segs) = 0 THEN <<>>
  ELSE LET init == NormalizeString(SubSeq(segs, 1, Len(segs) - 1), allowAboveRoot)
           seg == segs[Len(segs)]
       IN IF seg = EmptyString \/ seg = <<".">> THEN init
          ELSE IF seg = <<".", ".">>
            THEN IF Len(init) > 0 /\ init[Len(init)] # <<".", ".">>
                   THEN SubSeq(init, 1, Len(init) - 1)
                 ELSE IF allowAboveRoot THEN Append(init, seg)
                 ELSE init
          ELSE Append(init, seg)

\* segments joined by the separator
RECURSIVE JoinSegments(_)
JoinSegments(segs) ==
  IF Len(segs) = 0 THEN EmptyString
  ELSE IF Len(segs) = 1 THEN segs[1]
  ELSE JoinSegments(SubSeq(segs, 1, Len(segs) - 1)) \o <<"/">> \o segs[Len(segs)]

\* path.join(from, to): both arguments are concatenated, then normalized
PathJoin(from, to) ==
  LET joined == IF Len(to) = 0 THEN from ELSE from \o <<"/">> \o to
      norm == JoinSegments(NormalizeString(Segments(joined), ~IsAbsolute(joined)))
  IN IF IsAbsolute(joined) THEN <<"/">> \o norm
     ELSE IF Len(norm) > 0 THEN norm ELSE <<".">>

\* path.resolve(from, to) with an absolute `from`: the arguments are taken
\* from the right until the path is absolute (empty ones are skipped), and
\* the result is normalized
PathResolve(from, to) ==
  LET resolvedPath == IF Len(to) = 0 THEN from \o <<"/">>
                      ELSE IF IsAbsolute(to) THEN to \o <<"/">>
                      ELSE from \o <<"/">> \o to \o <<"/">>
  IN <<"/">> \o JoinSegments(NormalizeString(Segments(resolvedPath), FALSE))

\* The host's vault adapter: on the desktop a FileSystemAdapter with the
\* vault's directory as base path
Vaults ==
  { [fileSystem |-> TRUE, basePath |-> <<"/", "a">>],
    [fileSystem |-> TRUE, basePath |-> <<"/", "a", "/", "a", "a">>],
    [fileSystem |-> FALSE, basePath |-> EmptyString] }

\* CitationPlugin.resolveLibraryPath
VaultRoot(v) == IF v.fileSystem THEN v.basePath ELSE <<"/">>
ResolveLibraryPathJoined(v, rawPath) == PathJoin(VaultRoot(v), rawPath)
ResolveLibraryPath(v, rawPath) == PathResolve(VaultRoot(v), rawPath)

\* ------------------------------------------------------------- loadLibrary
\* switch (this.settings.citationExportFormat): the field holding the citekey
IdKeySwapped(format) == IF format = "biblatex" THEN "id" ELSE "key"
IdKey(format) == IF format = "biblatex" THEN "key" ELSE "id"

\* (e as IIndexable)[idKey]
Field(e, name) == IF name = "key" THEN e.key ELSE e.id

\* The adapters (types.ts): a record whose identifying key is missing or
\* empty fails with AdapterError; every other record adapts to an Entry.
AdapterKey(format, e) == IF format = "biblatex" THEN e.key ELSE e.id
AdapterFails(format, e) == AdapterKey(format, e) \in {MISSING, ""}
Adapt(format, e) == [id |-> AdapterKey(format, e), title |-> e.title]

\* entries.map((e) => [e[idKey], new adapter(e)])
Pairs(format, entries) ==
  [i \in 1..Len(entries) |->
     <<Field(entries[i], IdKey(format)), Adapt(format, entries[i])>>]

EmptyObject == [k \in {} |-> Null]

\* Object.fromEntries: pairs are defined in order, a later one overwrites
RECURSIVE FromEntriesFirstWins(_)
FromEntriesFirstWins(pairs) ==
  IF Len(pairs) = 0 THEN EmptyObject
  ELSE LET init == FromEntriesFirstWins(SubSeq(pairs, 1, Len(pairs) - 1))
           last == pairs[Len(pairs)]
           k0 == ToPropertyKey(last[1])
       IN [k \in DOMAIN init \cup {k0} |->
             IF k \in DOMAIN init THEN init[k] ELSE last[2]]

RECURSIVE FromEntries(_)
FromEntries(pairs) ==
  IF Len(pairs) = 0 THEN EmptyObject
  ELSE LET init == FromEntries(SubSeq(pairs, 1, Len(pairs) - 1))
           last == pairs[Len(pairs)]
           k0 == ToPropertyKey(last[1])
       IN [k \in DOMAIN init \cup {k0} |-> IF k = k0 THEN last[2] ELSE init[k]]

\* new Library(entries) and its size (types.ts)
NewLibrary(obj) == [kind |-> "Library", entries |-> obj]
LibrarySize(lib) == Cardinality(DOMAIN lib.entries)

\* What the file system and the parser hand to one load: the read fails, or
\* the parse fails, or the parse yields a batch of raw records.
LoadInputs(batches) ==
  { [readOk |-> FALSE, parseOk |-> FALSE, entries |-> <<>>],
    [readOk |-> TRUE, parseOk |-> FALSE, entries |-> <<>>] }
  \cup { [readOk |-> TRUE, parseOk |-> TRUE, entries |-> b] : b \in batches }

\* the files of the running plugin: short, one title
LiveInputs(format) ==
  LoadInputs(SeqsUpTo(RawRecords(format, {"a", "", MISSING}, {1}), MaxRecords))

\* the files the build is inspected on: duplicates, two keys, two titles
BuildInputs(format) ==
  LoadInputs(SeqsUpTo(RawRecords(format, CiteVals, Titles), MaxBatch))

NoLibrary == [kind |-> "none"]

\* The catch block of loadLibrary: the error is logged, the Notifier is
\* asked to show, null is returned.
CaughtSilently(stages, newLibrary, entries) ==
  [stages |-> stages, newLibrary |-> newLibrary, entries |-> entries,
   result |-> Null, shows |-> 0, escaped |-> FALSE]

Caught(stages, newLibrary, entries) ==
  [stages |-> stages, newLibrary |-> newLibrary, entries |-> entries,
   result |-> Null, shows |-> 1, escaped |-> FALSE]

\* The try block of loadLibrary from the resolution of readLocalFile on, and
\* its catch block. lib is this.library when the block runs. stages says
\* whether read, parse and adapt succeeded ("ok") or one of them threw
\* ("failed"), shows counts the calls of loadErrorNotifier.show(), escaped
\* says whether an exception leaves loadLibrary.
LoadResult(lib, format, input) ==
  IF ~input.readOk THEN Caught("failed", NoLibrary, input.entries)
  ELSE IF ~input.parseOk THEN Caught("failed", NoLibrary, input.entries)
  ELSE IF \E i \in 1..Len(input.entries) : AdapterFails(format, input.entries[i])
    THEN Caught("failed", NoLibrary, input.entries)
  ELSE LET newLibrary == NewLibrary(FromEntries(Pairs(format, input.entries)))
       IN \* console.debug(`... ${this.library.size} entries.`)
          IF ~Truthy(lib) THEN Caught("ok", newLibrary, input.entries)
          ELSE [stages |-> "ok", newLibrary |-> newLibrary,
                entries |-> input.entries, result |-> newLibrary,
                shows |-> 0, escaped |-> FALSE]

\* ---------------------------------------------------------------- Notifier
Categories == {"loadError", "literatureNoteError"}
NoticeObject == [kind |-> "Notice"]
ObserverObject == [kind |-> "MutationObserver"]

\* A Notifier after construction. Besides its two fields: how many notice
\* elements it created are displayed, how many are disappearing (they have
\* the class mod-disappearing and are not detached yet), and how many of its
\* mutation observers are observing.
NewNotifier ==
  [currentNotice |-> Undefined, mutationObserver |-> Undefined,
   displayed |-> 0, disappearing |-> 0, connected |-> 0]

Room(n) == n.displayed + n.disappearing < MaxNotices
CanShow(n) == Truthy(n.currentNotice) \/ Room(n)

\* this.mutationObserver?.disconnect()
Disconnect(n) ==
  IF Truthy(n.mutationObserver) THEN n.connected - 1 ELSE n.connected

\* Notifier.show: the Notifier afterwards and the value returned
NotifierShowAlways(n) ==
  IF ~Room(n) THEN [n |-> n, ret |-> "false"]
  ELSE [n |-> [currentNotice |-> NoticeObject, mutationObserver |-> ObserverObject,
               displayed |-> n.displayed + 1, disappearing |-> n.disappearing,
               connected |-> Disconnect(n) + 1],
        ret |-> "undefined"]

NotifierShow(n) ==
  IF Truthy(n.currentNotice) THEN [n |-> n, ret |-> "false"]
  ELSE [n |-> [currentNotice |-> NoticeObject, mutationObserver |-> ObserverObject,
               displayed |-> n.displayed + 1, disappearing |-> n.disappearing,
               connected |-> Disconnect(n) + 1],
        ret |-> "undefined"]

\* Notifier.hide: Notice.hide() starts the current notice's disappearance
NotifierHide(n) ==
  [currentNotice |-> Null, mutationObserver |-> Null,
   displayed |-> IF Truthy(n.currentNotice) THEN n.displayed - 1 ELSE n.displayed,
   disappearing |-> IF Truthy(n.currentNotice) THEN n.disappearing + 1
                    ELSE n.disappearing,
   connected |-> Disconnect(n)]

\* Notifier.unload
NotifierUnload(n) == NotifierHide(n)

\* the class the host gives a notice element that fades out
DISAPPEARING_CLASS == "mod-disappearing"
\* NoticeExt.DISAPPEARING_CLASS (obsidian-extensions): the same class
NoticeExtDisappearingClass == "mod-disappearing"

\* el.hasClass(NoticeExt.DISAPPEARING_CLASS) on an element with class cls
IsDisappearing(cls) == cls = NoticeExtDisappearingClass

\* A displayed notice element gets the class mod-disappearing; the callback
\* of the mutation observer that observes it runs.
NoticeDisappearingUnnoticed(n) ==
  [n EXCEPT !.displayed = @ - 1, !.disappearing = @ + 1]

NoticeDisappearing(n) ==
  IF n.connected > 0 /\ IsDisappearing(DISAPPEARING_CLASS)
  THEN [currentNotice |-> Null, mutationObserver |-> Null,
        displayed |-> n.displayed - 1, disappearing |-> n.disappearing + 1,
        connected |-> n.connected - 1]
  ELSE [n EXCEPT !.displayed = @ - 1, !.disappearing = @ + 1]

\* ------------------------------------------------------------------- state
VARIABLES
  notifier,     \* the Notifier of each category
  lastShow,     \* what the last Notifier.show() whose value was read returned
  pc,           \* "onload", "init" (init awaits the first load), "ready"
  settings,     \* the plugin's settings once loaded
  library,      \* CitationPlugin.library
  libraryFrom,  \* the loadLibrary call (in trigger order) whose result library holds
  loads,        \* the loadLibrary calls so far, in trigger order
  watcher,      \* "none", "watching", "failed"
  setupShows,   \* calls of loadErrorNotifier.show() by the watcher setup
  pendingWrite, \* the watcher holds a change until the file is stable
  quietMs,      \* time since the last raw change event
  rawChanges,   \* raw change events of the current (or the last) burst
  commands,     \* the commands are registered
  uncaught,     \* the error a command callback threw last
  built,        \* loadLibrary's locals entries and newLibrary, as last computed
  vault,        \* the host's vault adapter
  fileReads,    \* the paths passed to readLocalFile so far
  watchedPath   \* the path passed to chokidar.watch

vars == <<notifier, lastShow, pc, settings, library, libraryFrom, loads, watcher,
          setupShows, pendingWrite, quietMs, rawChanges, commands, uncaught, built,
          vault, fileReads, watchedPath>>

notifierVars == <<notifier, lastShow>>
watcherVars == <<watcher, setupShows, pendingWrite, quietMs, rawChanges>>
pathVars == <<vault, fileReads, watchedPath>>
pluginVars == <<pc, settings, library, libraryFrom, loads, commands, uncaught, built,
                pathVars>>

\* the plugin after construction, whatever the host's vault
Constructed ==
  /\ notifier = [c \in Categories |-> NewNotifier]
  /\ lastShow = "none"
  /\ pc = "onload"
  /\ settings = [citationExportPath |-> EmptyString,
                 citationExportFormat |-> "biblatex"]
  /\ library = Undefined
  /\ libraryFrom = 0
  /\ loads = <<>>
  /\ watcher = "none"
  /\ setupShows = 0
  /\ pendingWrite = FALSE
  /\ quietMs = 0
  /\ rawChanges = 0
  /\ commands = FALSE
  /\ uncaught = "none"
  /\ built = [entries |-> <<>>, newLibrary |-> NoLibrary]
  /\ fileReads = <<>>
  /\ watchedPath = EmptyString

\* a desktop vault
Init ==
  /\ vault = [fileSystem |-> TRUE, basePath |-> <<"/", "a">>]
  /\ Constructed

\* any vault
InitAnyVault ==
  /\ vault \in Vaults
  /\ Constructed

\* A loadLibrary call has returned and the continuation of its caller's
\* await is queued: it runs before the host handles the next event (a
\* command, a file change, a timer), as promise continuations do.
ContinuationQueued == \E i \in 1..Len(loads) : loads[i].pc = "returned"

\* ------------------------------------------------------- Notifier's events
\* show() of one Notifier, called by any caller that reads what it returns
Show(c) ==
  /\ CanShow(notifier[c])
  /\ notifier' = [notifier EXCEPT ![c] = NotifierShow(notifier[c]).n]
  /\ lastShow' = NotifierShow(notifier[c]).ret
  /\ UNCHANGED <<pluginVars, watcherVars>>

Hide(c) ==
  /\ notifier' = [notifier EXCEPT ![c] = NotifierHide(notifier[c])]
  /\ UNCHANGED <<lastShow, pluginVars, watcherVars>>

Unload(c) ==
  /\ notifier' = [notifier EXCEPT ![c] = NotifierUnload(notifier[c])]
  /\ UNCHANGED <<lastShow, pluginVars, watcherVars>>

\* the host starts to remove a displayed notice (its timeout, or a click)
NoticeDisappears(c) ==
  /\ ~ContinuationQueued
  /\ notifier[c].displayed > 0
  /\ notifier' = [notifier EXCEPT ![c] = NoticeDisappearing(notifier[c])]
  /\ UNCHANGED <<lastShow, pluginVars, watcherVars>>

\* the host detaches a disappearing notice element
NoticeRemoved(c) ==
  /\ ~ContinuationQueued
  /\ notifier[c].disappearing > 0
  /\ notifier' = [notifier EXCEPT ![c].disappearing = @ - 1]
  /\ UNCHANGED <<lastShow, pluginVars, watcherVars>>

\* ------------------------------------------------------------ the plugin
\* A loadLibrary call right after it was called: with no export path it
\* warns and returns null, otherwise it awaits readLocalFile.
StartedLoadReading(trigger, path) ==
  [trigger |-> trigger, pc |-> "reading", stages |-> "none",
   result |-> NoLibrary, shows |-> 0, escaped |-> FALSE]

StartedLoad(trigger, path) ==
  IF path # EmptyString
  THEN [trigger |-> trigger, pc |-> "reading", stages |-> "none",
        result |-> NoLibrary, shows |-> 0, escaped |-> FALSE]
  ELSE [trigger |-> trigger, pc |-> "returned", stages |-> "none",
        result |-> Null, shows |-> 0, escaped |-> FALSE]

\* the same call's use of the file system: with an export path it reads
\* the file at the resolved path
FileReadsAfter(reads, v, path) ==
  IF path # EmptyString THEN Append(reads, ResolveLibraryPath(v, path)) ELSE reads

\* a call whose caller has taken the result
Finished(trigger) ==
  [trigger |-> trigger, pc |-> "done", stages |-> "none", result |-> NoLibrary,
   shows |-> 0, escaped |-> FALSE]

\* Whether the commands are registered once a step of the start-up has run:
\* init calls addCommand after its await, onload does not call it
CommandsAfterEager(step) == TRUE

CommandsAfter(step) == step = "init"

\* the export paths of the running plugin: unset, or a file in the vault
LivePaths == {EmptyString, <<"a">>}

\* onload: loadSettings resolves, init() runs up to its await of loadLibrary
OnloadWith(paths) ==
  /\ pc = "onload"
  /\ \E path \in paths, format \in Formats :
       /\ settings' = [citationExportPath |-> path, citationExportFormat |-> format]
       /\ loads' = <<StartedLoad("init", path)>>
       /\ fileReads' = FileReadsAfter(fileReads, vault, path)
  /\ commands' = CommandsAfter("onload")
  /\ pc' = "init"
  /\ UNCHANGED <<notifierVars, watcherVars, library, libraryFrom, uncaught, built,
                 vault, watchedPath>>

Onload == OnloadWith(LivePaths)

\* the same with any export path configured
OnloadAnyPath == OnloadWith(Paths)

\* loadLibrary assigns nothing to this.library: it returns the new Library
LibraryAfterLoadPublished(lib, r) ==
  IF r.newLibrary.kind = "Library" THEN r.newLibrary ELSE lib

LibraryAfterLoad(lib, r) == lib

\* readLocalFile settles with input: the rest of loadLibrary runs and returns
LoadRun(i, input) ==
  LET r == LoadResult(library, settings.citationExportFormat, input)
      n == notifier["loadError"]
  IN /\ i \in 1..Len(loads)
     /\ loads[i].pc = "reading"
     /\ r.shows > 0 => CanShow(n)
     /\ loads' = [loads EXCEPT ![i] =
                    [trigger |-> loads[i].trigger, pc |-> "returned",
                     stages |-> r.stages, result |-> r.result,
                     shows |-> r.shows, escaped |-> r.escaped]]
     /\ library' = LibraryAfterLoad(library, r)
     /\ notifier' = [notifier EXCEPT !["loadError"] =
                       IF r.shows > 0 THEN NotifierShow(n).n ELSE n]
     /\ UNCHANGED <<lastShow, watcherVars, pc, settings, libraryFrom, commands,
                    uncaught, pathVars>>

LoadFinish(i) ==
  /\ \E input \in LiveInputs(settings.citationExportFormat) : LoadRun(i, input)
  /\ UNCHANGED built

\* the same step with the locals of the try block kept for inspection
LoadFinishObserved(i) ==
  \E input \in BuildInputs(settings.citationExportFormat) :
    /\ LoadRun(i, input)
    /\ built' = [entries |-> input.entries,
                 newLibrary |-> LoadResult(library, settings.citationExportFormat,
                                           input).newLibrary]

\* init's try/catch around chokidar.watch(...).on('change', ...): ok says
\* that nothing was thrown
WatchSetupNoNotice(ok, n) ==
  [watcher |-> IF ok THEN "watching" ELSE "failed", n |-> n, shows |-> 0]

WatchSetup(ok, n) ==
  IF ok THEN [watcher |-> "watching", n |-> n, shows |-> 0]
  ELSE [watcher |-> "failed", n |-> NotifierShow(n).n, shows |-> 1]

\* `this.library = await this.loadLibrary()`: the value assigned is the
\* call's result, null included
AssignedUnlessNull(result, lib) == IF Truthy(result) THEN result ELSE lib

Assigned(result, lib) == result

\* init after its await: the result is assigned, the watcher is set up and
\* the commands are registered
InitContinue ==
  /\ pc = "init"
  /\ loads[1].pc = "returned"
  /\ library' = Assigned(loads[1].result, library)
  /\ libraryFrom' = 1
  /\ loads' = [loads EXCEPT ![1] = Finished("init")]
  /\ \E ok \in BOOLEAN :
       LET w == WatchSetup(ok, notifier["loadError"])
       IN /\ ~ok => CanShow(notifier["loadError"])
          /\ watcher' = w.watcher
          /\ setupShows' = w.shows
          /\ notifier' = [notifier EXCEPT !["loadError"] = w.n]
  /\ watchedPath' = ResolveLibraryPath(vault, settings.citationExportPath)
  /\ commands' = CommandsAfter("init")
  /\ pc' = "ready"
  /\ UNCHANGED <<lastShow, settings, pendingWrite, quietMs, rawChanges, uncaught,
                 built, vault, fileReads>>

\* Whether the continuation of `this.library = await this.loadLibrary()`
\* assigns: it always does, whatever was triggered or assigned meanwhile
AssignsOnlyIfNewer(i, from) == i > from

Assigns(i, from) == TRUE

\* this.library = await this.loadLibrary() in the watcher's 'change' handler
\* and in the update-bib-data command: the continuation after the await
AssignLibrary(i) ==
  /\ i \in 2..Len(loads)
  /\ loads[i].pc = "returned"
  /\ library' = IF Assigns(i, libraryFrom) THEN Assigned(loads[i].result, library)
                 ELSE library
  /\ libraryFrom' = IF Assigns(i, libraryFrom) THEN i ELSE libraryFrom
  /\ loads' = [loads EXCEPT ![i] = Finished(loads[i].trigger)]
  /\ UNCHANGED <<notifierVars, watcherVars, pc, settings, commands, uncaught, built,
                 pathVars>>

\* the update-bib-data command's callback up to its await
CommandRefresh ==
  /\ ~ContinuationQueued
  /\ commands
  /\ Len(loads) < MaxLoads
  /\ loads' = Append(loads, StartedLoad("command", settings.citationExportPath))
  /\ fileReads' = FileReadsAfter(fileReads, vault, settings.citationExportPath)
  /\ UNCHANGED <<notifierVars, watcherVars, pc, settings, library, libraryFrom,
                 commands, uncaught, built, vault, watchedPath>>

\* SearchModal's constructor: this.suggestions = plugin.library.entries
ModalConstructor(lib) == IF Truthy(lib) THEN "opened" ELSE "TypeError"

\* any of the four commands that open a search modal (OpenNoteModal,
\* InsertNoteLinkModal, InsertNoteContentModal, InsertCitationModal): each
\* constructs a SearchModal
CommandOpenModal ==
  /\ ~ContinuationQueued
  /\ commands
  /\ uncaught' = ModalConstructor(library)
  /\ UNCHANGED <<notifierVars, watcherVars, pc, settings, library, libraryFrom,
                 loads, commands, built, pathVars>>

\* ------------------------------------------------------------ the watcher
\* the watched file changes: awaitWriteFinish holds the event
FileChange ==
  /\ ~ContinuationQueued
  /\ watcher = "watching"
  /\ pendingWrite => rawChanges < MaxBurst
  /\ pendingWrite' = TRUE
  /\ quietMs' = 0
  /\ rawChanges' = IF pendingWrite THEN rawChanges + 1 ELSE 1
  /\ UNCHANGED <<notifierVars, pluginVars, watcher, setupShows>>

\* the file has been stable for the threshold
WatcherReady == pendingWrite /\ quietMs >= stabilityThreshold

Tick ==
  /\ ~ContinuationQueued
  /\ pendingWrite
  /\ ~WatcherReady
  /\ quietMs' = quietMs + TimeStep
  /\ UNCHANGED <<notifierVars, pluginVars, watcher, setupShows, pendingWrite,
                 rawChanges>>

\* the watcher emits 'change': the handler calls loadLibrary
WatcherFire ==
  /\ ~ContinuationQueued
  /\ WatcherReady
  /\ Len(loads) < MaxLoads
  /\ loads' = Append(loads, StartedLoad("watcher", settings.citationExportPath))
  /\ fileReads' = FileReadsAfter(fileReads, vault, settings.citationExportPath)
  /\ pendingWrite' = FALSE
  /\ quietMs' = 0
  /\ UNCHANGED <<notifierVars, watcher, setupShows, rawChanges, pc, settings,
                 library, libraryFrom, commands, uncaught, built, vault, watchedPath>>

\* ---------------------------------------------------------- specifications
Next ==
  \/ Onload
  \/ \E i \in 1..MaxLoads : LoadFinish(i)
  \/ InitContinue
  \/ \E i \in 1..MaxLoads : AssignLibrary(i)
  \/ CommandRefresh
  \/ CommandOpenModal
  \/ FileChange
  \/ Tick
  \/ WatcherFire
  \/ NoticeDisappears("loadError")
  \/ NoticeRemoved("loadError")

Spec == Init /\ [][Next]_vars

\* A Notifier of each category under any sequence of calls and notice events
NextNotifier ==
  \/ \E c \in Categories : Show(c)
  \/ \E c \in Categories : Hide(c)
  \/ \E c \in Categories : Unload(c)
  \/ \E c \in Categories : NoticeDisappears(c)
  \/ \E c \in Categories : NoticeRemoved(c)

SpecNotifier == Init /\ [][NextNotifier]_vars

\* init and its load alone, the load's locals observed
NextLoader ==
  \/ Onload
  \/ LoadFinishObserved(1)
  \/ InitContinue

SpecLoader == Init /\ [][NextLoader]_vars

\* init and its load with any export path in any vault
NextPaths ==
  \/ OnloadAnyPath
  \/ LoadFinish(1)
  \/ InitContinue

SpecPaths == InitAnyVault /\ [][NextPaths]_vars

\* ------------------------------------------------------------------ claims
Returned == { i \in 1..Len(loads) : loads[i].pc = "returned" }

\* C1: a load whose path is set and whose read, parse and adapt stages all
\* succeed returns a non-null Library and shows no error notice, in every
\* state in which it can run (the first load of init included).
C1_SuccessfulLoadReturnsLibrary ==
  \A i \in Returned :
    loads[i].stages = "ok" => loads[i].result.kind = "Library" /\ loads[i].shows = 0

\* C2: a load whose read, parse or adapt stage fails calls the load-error
\* Notifier exactly once, returns null (no Library), and no exception leaves
\* loadLibrary.
C2_FailedLoadNotifiesOnceReturnsNull ==
  \A i \in Returned :
    loads[i].stages = "failed" =>
      /\ loads[i].shows = 1
      /\ loads[i].result = Null
      /\ ~loads[i].escaped

\* a load failed at read, parse or adapt and has returned
C2_Witness == \E i \in Returned : loads[i].stages = "failed" /\ loads[i].trigger # "init"

\* C3: after a load has returned null, a command that reads the library
\* (opening a search modal) does not throw on the null library reference.
C3_CommandsTolerateNull == library = Null => uncaught # "TypeError"

\* C4: of each Notifier at most one notice is displayed, and it is the current
\* one: a show() while currentNotice is displayed creates no notice, and none
\* is displayed later in its place (displayed counts the notices not yet
\* disappearing).
C4_AtMostOneNotice ==
  \A c \in Categories :
    /\ notifier[c].displayed <= 1
    /\ notifier[c].displayed = 1 <=> Truthy(notifier[c].currentNotice)

\* a show() was suppressed while a notice is displayed, after an earlier
\* notice of the category began to disappear
C4_Witness ==
  /\ lastShow = "false"
  /\ \E c \in Categories : notifier[c].displayed = 1 /\ notifier[c].disappearing >= 1

\* C5: whichever load's continuation runs assigns its result, whatever was
\* triggered or assigned meanwhile: the reference holds the result of the
\* load that completed last, not of the one triggered last.
C5_LastCompletionWins ==
  [][\A i \in 2..Len(loads) :
       (loads[i].pc = "returned" /\ loads'[i].pc = "done") =>
         (library' = loads[i].result /\ libraryFrom' = i)]_vars

\* a manual and a watcher load overlapped, and the one triggered first
\* assigned after the one triggered later had already assigned
C5_Witness ==
  \E i, j \in 2..Len(loads) :
    /\ i < j
    /\ loads[i].trigger # loads[j].trigger
    /\ loads[i].pc = "done" /\ loads[j].pc = "done"
    /\ libraryFrom = i

WatcherLoads == { i \in 1..Len(loads) : loads[i].trigger = "watcher" }

\* C6: the change events of one burst produce one reload trigger, issued only
\* once 500 ms have passed since the last of them: a trigger needs a held
\* change and that quiet time, starts exactly one load, and leaves nothing
\* held, so that the next trigger needs a new change event.
C6_WatcherCoalescing ==
  [][(Len(loads') > Len(loads) /\ loads'[Len(loads')].trigger = "watcher") =>
       /\ pendingWrite /\ rawChanges >= 1
       /\ quietMs >= 500
       /\ Len(loads') = Len(loads) + 1
       /\ ~pendingWrite']_vars

\* a burst of two change events has produced the only watcher load so far
C6_Witness ==
  /\ rawChanges >= 2
  /\ ~pendingWrite
  /\ Cardinality(WatcherLoads) = 1

\* C7: the library reference changes only by the assignment of the whole
\* result of a load that has returned (null or a complete Library), also
\* while other loads are suspended; no step fills or changes a Library that
\* the reference already holds.
C7_WholeReplacement ==
  [][library' # library =>
       \E i \in 1..Len(loads) :
         /\ loads[i].pc = "returned" /\ loads'[i].pc = "done"
         /\ library' = loads[i].result
         /\ library'.kind \in {"null", "Library"}]_vars

\* the reference was replaced, and another load finished its try block,
\* while a third call is suspended at its await
C7_Witness ==
  /\ library = Null
  /\ \E i, j \in 1..Len(loads) :
       /\ loads[i].pc = "reading"
       /\ loads[j].pc = "returned" /\ loads[j].stages = "ok"

\* the citekey of a raw record of the batch last built from
CiteKeyOf(i) == AdapterKey(settings.citationExportFormat, built.entries[i])

\* C8: the Library built from a batch maps each citekey to the adapted entry
\* of the last record with that citekey, and its size is the number of
\* distinct citekeys of the batch.
C8_LastWriteWins ==
  built.newLibrary.kind = "Library" =>
    LET n == Len(built.entries)
        keys == { CiteKeyOf(i) : i \in 1..n }
        last(k) == CHOOSE i \in 1..n :
                     CiteKeyOf(i) = k /\ \A j \in (i + 1)..n : CiteKeyOf(j) # k
    IN /\ DOMAIN built.newLibrary.entries = keys
       /\ \A k \in keys :
            built.newLibrary.entries[k] =
              Adapt(settings.citationExportFormat, built.entries[last(k)])
       /\ LibrarySize(built.newLibrary) = Cardinality(keys)

\* a Library was built from a batch in which two records with different
\* content share a citekey
C8_Witness ==
  /\ built.newLibrary.kind = "Library"
  /\ \E i, j \in 1..Len(built.entries) :
       i < j /\ CiteKeyOf(i) = CiteKeyOf(j) /\ built.entries[i] # built.entries[j]

\* C9: a Library that load builds is keyed only by non-empty citekeys, each
\* the `key` field (biblatex) or the `id` field (csl-json) of a record of the
\* batch; a batch with a record whose key is missing or empty yields no
\* Library.
C9_NonEmptyCitekeys ==
  LET n == Len(built.entries)
      field == IF settings.citationExportFormat = "biblatex" THEN "key" ELSE "id"
  IN /\ built.newLibrary.kind = "Library" =>
          \A k \in DOMAIN built.newLibrary.entries :
            /\ k \notin {"", "undefined"}
            /\ \E i \in 1..n : Field(built.entries[i], field) = k
     /\ (\E i \in 1..n : Field(built.entries[i], field) \in {"", MISSING}) =>
          built.newLibrary = NoLibrary

\* a csl-json Library with two citekeys was built
C9_Witness ==
  /\ settings.citationExportFormat = "csl-json"
  /\ built.newLibrary.kind = "Library"
  /\ Cardinality(DOMAIN built.newLibrary.entries) = 2

\* C10: when the watcher setup fails, a load-error notice is displayed at
\* that step (the one show() call of the setup, or the notice it was
\* suppressed by), and the setup is never attempted again.
C10_WatchSetupFailsOnce ==
  [][/\ (watcher # "failed" /\ watcher' = "failed") =>
          /\ pc = "init"
          /\ setupShows' = 1
          /\ notifier'["loadError"].displayed = 1
     /\ watcher = "failed" => (watcher' = "failed" /\ setupShows' = setupShows)]_vars

\* the setup failed with no notice on display, and the plugin went on to
\* reload on command
C10_Witness ==
  /\ watcher = "failed"
  /\ settings.citationExportPath = EmptyString
  /\ Len(loads) >= 2

\* C11: show() returns true exactly when the call created and displayed a
\* new notice, and false exactly when it was suppressed by the notice the
\* category already displays.
C11_ShowReturnsWhetherShown ==
  [][/\ (\E c \in Categories : notifier'[c].displayed > notifier[c].displayed)
          => lastShow' = "true"
     /\ (lastShow' = "false" /\ lastShow # "false")
          => /\ notifier' = notifier
             /\ \E c \in Categories : Truthy(notifier[c].currentNotice)]_vars

\* a segment that names a file or a directory
PlainSegment(seg) == seg \notin {EmptyString, <<".">>, <<".", ".">>}

\* an absolute path with no ".", "..", repeated or trailing separator
IsNormal(p) ==
  /\ IsAbsolute(p)
  /\ \/ p = <<"/">>
     \/ \A i \in 2..Len(Segments(p)) : PlainSegment(Segments(p)[i])

\* the directories passed on the way from the root along the segments
RECURSIVE Walk(_, _)
Walk(stack, segs) ==
  IF Len(segs) = 0 THEN stack
  ELSE LET seg == Head(segs)
       IN Walk(IF seg = EmptyString \/ seg = <<".">> THEN stack
               ELSE IF seg = <<".", ".">>
                 THEN SubSeq(stack, 1, Len(stack) - 1)
               ELSE Append(stack, seg),
               Tail(segs))

\* the file an absolute path designates, read lexically
Location(p) == Walk(<<>>, Segments(p))

\* the paths the plugin handed to readLocalFile and to chokidar.watch
UsedPaths ==
  { fileReads[i] : i \in 1..Len(fileReads) }
    \cup (IF pc = "ready" THEN {watchedPath} ELSE {})

\* the file the configured path designates: the path itself if absolute,
\* else the path below the vault's directory
Designated(v, rawPath) ==
  IF IsAbsolute(rawPath) THEN rawPath ELSE v.basePath \o <<"/">> \o rawPath

\* C12 as stated: an absolute export path is used unchanged, a relative one
\* designates the file below the vault root, and the load and the watcher
\* both use the path so resolved.
C12_AbsoluteVerbatim ==
  LET rawPath == settings.citationExportPath
  IN (pc # "onload" /\ rawPath # EmptyString) =>
       /\ pc = "ready" => fileReads = <<watchedPath>>
       /\ \A p \in UsedPaths :
            /\ IsAbsolute(rawPath) => p = rawPath
            /\ (~IsAbsolute(rawPath) /\ vault.fileSystem) =>
                 Location(p) = Location(Designated(vault, rawPath))

\* C12: the load and the watcher both use one path, the normal form of the
\* file the export path designates: of the path itself if it is absolute (so
\* an absolute path already in normal form is used unchanged), of the path
\* below the vault root if it is relative.
C12_ResolvedNormalised ==
  LET rawPath == settings.citationExportPath
  IN (pc # "onload" /\ rawPath # EmptyString) =>
       /\ pc = "ready" => fileReads = <<watchedPath>>
       /\ \A p \in UsedPaths :
            /\ IsNormal(p)
            /\ (IsAbsolute(rawPath) /\ IsNormal(rawPath)) => p = rawPath
            /\ (IsAbsolute(rawPath) \/ vault.fileSystem) =>
                 Location(p) = Location(Designated(vault, rawPath))

\* an absolute export path with a ".." segment was read and is watched
\* under a different, normalised path
C12_Witness ==
  /\ pc = "ready"
  /\ IsAbsolute(settings.citationExportPath)
  /\ \E i \in 1..Len(Segments(settings.citationExportPath)) :
       Segments(settings.citationExportPath)[i] = <<".", ".">>
  /\ watchedPath # settings.citationExportPath
  /\ fileReads = <<watchedPath>>

\* C13: suppression ends with the notice. Once the displayed notice begins
\* to disappear, or hide() or unload() is called, currentNotice is cleared
\* and the observer disconnected; a Notifier holds a current notice only
\* while that notice is displayed, and without one its next show() displays
\* a new notice; at most one of its mutation observers is connected.
C13_SuppressionEnds ==
  [][\A c \in Categories :
       LET n == notifier[c]
           m == notifier'[c]
       IN /\ m.connected <= 1
          /\ m.displayed < n.displayed =>
               (~Truthy(m.currentNotice) /\ m.connected = 0)
          /\ Truthy(m.currentNotice) => m.displayed = 1
          /\ ~Truthy(m.currentNotice) =>
               /\ m.connected = 0
               /\ (Room(m) => NotifierShow(m).n.displayed = m.displayed + 1)]_vars

\* a third notice of a category is displayed and observed while the two
\* before it are still disappearing
C13_Witness ==
  /\ lastShow = "undefined"
  /\ \E c \in Categories :
       /\ notifier[c].displayed = 1
       /\ notifier[c].connected = 1
       /\ notifier[c].disappearing >= 2

\* C14: when the caller of a load takes its result (init, the watcher's
\* handler or the refresh command), the library reference becomes that
\* result: null after a load that failed, whatever the reference held.
C14_ReferenceIsLoadResult ==
  [][\A i \in 1..Len(loads) :
       (loads[i].pc = "returned" /\ loads'[i].pc = "done") =>
         /\ library' = loads[i].result
         /\ loads[i].stages = "failed" => library' = Null
         /\ loads[i].result = Null => library'.kind # "Library"]_vars

\* a reload by the watcher has been read from the file, returned null and
\* was the last to be assigned
C14_Witness ==
  /\ settings.citationExportPath # EmptyString
  /\ library = Null
  /\ libraryFrom >= 2
  /\ loads[libraryFrom].trigger = "watcher"
  /\ loads[libraryFrom].pc = "done"

\* C15: the watcher exists and the commands are registered only once init's
\* load has returned and its result has been assigned: before that no
\* change is held, no other load has been started and no command has read
\* the library.
C15_SetupAfterInitialLoad ==
  (\/ watcher # "none"
   \/ commands
   \/ pendingWrite
   \/ Len(loads) >= 2
   \/ uncaught # "none") =>
    /\ pc = "ready"
    /\ loads[1].pc = "done"
    /\ libraryFrom >= 1
    /\ library # Undefined

\* after the first assignment a reload by the watcher and one by the
\* command are in flight together
C15_Witness ==
  /\ Len(loads) >= 3
  /\ loads[1].pc = "done"
  /\ \E i, j \in 2..Len(loads) :
       /\ loads[i].trigger = "watcher" /\ loads[i].pc = "reading"
       /\ loads[j].trigger = "command" /\ loads[j].pc = "reading"

\* C16: a load called while the export path is empty returns null at once:
\* it reads no file, does not call the error Notifier and leaves both
\* Notifiers as they were.
C16_UnsetPathLoadsNothing ==
  [][(Len(loads') > Len(loads) /\ settings'.citationExportPath = EmptyString) =>
       LET load == loads'[Len(loads')]
       IN /\ load.pc = "returned"
          /\ load.result = Null
          /\ load.shows = 0
          /\ ~load.escaped
          /\ fileReads' = fileReads
          /\ notifier' = notifier]_vars

\* with no export path, a reload by the command has returned null while a
\* load-error notice of the watcher setup is displayed; no file was read
C16_Witness ==
  /\ settings.citationExportPath = EmptyString
  /\ fileReads = <<>>
  /\ notifier["loadError"].displayed = 1
  /\ \E i \in 2..Len(loads) :
       /\ loads[i].trigger = "command"
       /\ loads[i].pc = "returned"
       /\ loads[i].result = Null

====
